---- MODULE Spec2Model ----
(***************************************************************************)
(* The resolution engine of argos_scraper.py: the visited-URL registry,    *)
(* the per-backend blocked state, the resolver (search backends for EAN    *)
(* codes, the direct Argos search for model numbers), the persistence of   *)
(* the four state files and the batch loop of main().                      *)
(*                                                                         *)
(* One process is one run of main(); the files outlive it.  Time is the    *)
(* value of time.time() in whole seconds.                                  *)
(***************************************************************************)
EXTENDS Integers, Sequences, FiniteSets, TLC

(***************************************************************************)
(* CONFIG                                                                  *)
(***************************************************************************)
search_backends == {"google", "mullvad_google", "yahoo", "yandex"}
block_cooldown == 1800
SaveEvery == 5
FailureThreshold == 10
ResumeLaterThreshold == 300
min_delay == 5
max_delay == 10
exponential_backoff_base == 2
max_backoff_delay == 300
JitterMax == 5
argos_search_delay == 3
ArgosJitterMax == 2

(***************************************************************************)
(* Bounds of the model.                                                    *)
(***************************************************************************)
MaxResults == 2

(***************************************************************************)
(* The inputs: the rows of input.csv, the URLs the searches can return.    *)
(***************************************************************************)
EanIds == {"5028965808078"}
ModelIds == {"MODEL123"}
\* load_products: a row gives (ean, 'ean') if it has an EAN, else (model, 'model')
Products == {<<e, "ean">> : e \in EanIds} \cup {<<m, "model">> : m \in ModelIds}

\* A URL is what the code looks at: whether it starts with 'http', whether
\* 'argos.co.uk' occurs in it, its path segments, and whether a '?clickSR=...'
\* part follows the path.
Url(http, argos, segs, query) ==
    [http |-> http, argos |-> argos, segs |-> segs, query |-> query]
P1 == Url(TRUE, TRUE, <<"product", "1">>, FALSE)
P2 == Url(TRUE, TRUE, <<"product", "tv", "2">>, FALSE)
P1Tracked == Url(TRUE, TRUE, <<"product", "1">>, TRUE)
Category == Url(TRUE, TRUE, <<"browse", "technology", "c:29949">>, FALSE)
\* href="/product/1" in a page of the site
RelativeP1 == Url(FALSE, FALSE, <<"product", "1">>, FALSE)
\* a redirect that carries the product path in its parameters only
ClickSR == Url(TRUE, FALSE, <<"product", "1">>, TRUE)

\* ddgs result hrefs, and the anchors of an Argos search page
Hrefs == {P1, P2, P1Tracked, Category}
PageLinks == {P1, RelativeP1, Category}

\* \d+ and [a-zA-Z0-9-]+ on the segments the model uses
DigitSegs == {"1", "2"}
SlugSegs == {"1", "2", "tv", "technology", "product", "browse", "search"}

\* url.split('?')[0]
StripQuery(url) == [url EXCEPT !.query = FALSE]

\* re.search(r'/product/\d+', url)
MatchesProductId(url) ==
    \E k \in 1..Len(url.segs) :
        /\ url.segs[k] = "product"
        /\ k + 1 <= Len(url.segs)
        /\ url.segs[k + 1] \in DigitSegs

\* re.search(r'/product/[a-zA-Z0-9-]+/\d+', url)
MatchesSlugProductId(url) ==
    \E k \in 1..Len(url.segs) :
        /\ url.segs[k] = "product"
        /\ k + 2 <= Len(url.segs)
        /\ url.segs[k + 1] \in SlugSegs
        /\ url.segs[k + 2] \in DigitSegs

\* Mutant of is_valid_product_url: every URL is valid.
any_url_valid(url) == TRUE

\* The patterns are tried first and return True; the exclude list after them
\* can only return False, as does the last line.
is_valid_product_url(url) ==
    IF ~url.argos THEN FALSE
    ELSE IF MatchesProductId(url) \/ MatchesSlugProductId(url) THEN TRUE
    ELSE FALSE

\* is_valid_product_url, lines 204-207: one of '/search/', '/browse/',
\* '/category/', '/c:', '/static/' occurs in the URL
ContainsExcluded(url) ==
    \E k \in 1..Len(url.segs) :
        \/ /\ url.segs[k] \in {"search", "browse", "category", "static"}
           /\ k < Len(url.segs)
        \/ url.segs[k] = "c:29949"

\* f"https://www.argos.co.uk/search/{quote(model_number)}"
SearchUrl(model_number) == Url(TRUE, TRUE, <<"search", model_number>>, FALSE)

\* f"https://www.argos.co.uk{href}"
Absolute(href) == [href EXCEPT !.http = TRUE, !.argos = TRUE]

\* f"https://www.argos.co.uk{match.group()}" for the first /product/\d+ of url
ProductOf(url) ==
    LET k == CHOOSE k \in 1..Len(url.segs) :
                 /\ url.segs[k] = "product"
                 /\ k + 1 <= Len(url.segs)
                 /\ url.segs[k + 1] \in DigitSegs
                 /\ \A j \in 1..(k - 1) :
                        ~(url.segs[j] = "product" /\ url.segs[j + 1] \in DigitSegs)
    IN  Url(TRUE, TRUE, <<"product", url.segs[k + 1]>>, FALSE)

\* Python's None where a URL is expected
NoUrl == Url(FALSE, FALSE, <<>>, FALSE)
NoProduct == <<"", "">>

Range(seq) == {seq[k] : k \in DOMAIN seq}
SeqsUpTo(S, n) == UNION {[1..k -> S] : k \in 0..n}

VARIABLES
    disk,                   \* the four state files
    pc,                     \* where main() is: start, loop, backends, post, final, done
    successful_products,
    not_found_products,
    search_blocked,         \* [blocked, last_block_time], per backend
    ACCESSED_URLS,
    BACKEND_FAILURES,       \* a dict: a function on the backends that have a key
    CONSECUTIVE_FAILURES,
    LAST_REQUEST_TIME,      \* a dict: the time after the last sleep, per channel
    rescrape_successful,    \* CONFIG['rescrape_successful'] of this run
    products_to_process,    \* the entries input.csv can put in the list of this run
    i,                      \* the loop index of main (1-based, 0 before the loop)
    cur,                    \* (product_id, search_type) of the iteration
    available_backends,     \* the backends find_product_url_enhanced has still to try
    product_url,            \* what find_product_url_enhanced returned
    now,                    \* time.time()
    runs,                   \* processes started so far
    faults,                 \* file faults so far
    hist                    \* history: what the claims observe

vars == <<disk, pc, successful_products, not_found_products, search_blocked,
          ACCESSED_URLS, BACKEND_FAILURES, CONSECUTIVE_FAILURES,
          LAST_REQUEST_TIME, rescrape_successful, products_to_process, i, cur, available_backends,
          product_url, now, runs, faults, hist>>

(***************************************************************************)
(* Dicts: a function on the keys the dict holds.                           *)
(***************************************************************************)
EmptyDict == [k \in {} |-> 0]
DictGet(d, k, default) == IF k \in DOMAIN d THEN d[k] ELSE default
DictSet(d, k, v) == [x \in DOMAIN d \cup {k} |-> IF x = k THEN v ELSE d[x]]

(***************************************************************************)
(* PERSISTENCE FUNCTIONS                                                   *)
(***************************************************************************)
Files == {"success_file", "not_found_file", "blocked_status_file", "accessed_urls_file"}

\* search_blocked as load_persistent_data initialises it: every backend False,
\* no 'last_block_time' key.
InitialBlocked ==
    [blocked |-> [b \in search_backends |-> FALSE], last_block_time |-> EmptyDict]

EmptyData(f) == IF f = "blocked_status_file" THEN InitialBlocked ELSE {}
MissingFile(f) == [state |-> "missing", data |-> EmptyData(f)]
CorruptFile(f) == [state |-> "corrupt", data |-> EmptyData(f)]

\* What each file is written from.
MemoryOf(f, succ, nf, sb, urls) ==
    CASE f = "success_file" -> succ
      [] f = "not_found_file" -> nf
      [] f = "blocked_status_file" -> sb
      [] f = "accessed_urls_file" -> urls

\* One try block of save_persistent_data: open() may fail (the file is left as
\* it was), the dump may fail after open() has truncated the file, or the data
\* is written.  The exception is logged and the next file is written.
WriteFile(f, old, data, outcome) ==
    CASE outcome = "written" -> [state |-> "ok", data |-> data]
      [] outcome = "open_fails" -> old
      [] outcome = "dump_fails" -> CorruptFile(f)

\* The outcomes of the four writes of one save, within the fault budget.
WriteOutcomes(env) ==
    {w \in [Files -> {"written", "open_fails", "dump_fails"}] :
        Cardinality({f \in Files : w[f] # "written"}) <= env.max_faults - faults}

FaultsIn(w) == Cardinality({f \in Files : w[f] # "written"})

\* Mutant of save_persistent_data: the first write that fails ends the save.
save_until_failure(w, succ, nf, sb, urls) ==
    LET order == <<"success_file", "not_found_file", "blocked_status_file",
                   "accessed_urls_file">>
        reached(k) == \A j \in 1..(k - 1) : w[order[j]] = "written"
        at(f) == CHOOSE k \in 1..4 : order[k] = f
    IN  /\ disk' = [f \in Files |->
                      IF reached(at(f))
                      THEN WriteFile(f, disk[f], MemoryOf(f, succ, nf, sb, urls), w[f])
                      ELSE disk[f]]
        /\ faults' = faults + FaultsIn(w)

\* save_persistent_data, lines 546-571: four try blocks, one after the other
save_persistent_data(w, succ, nf, sb, urls) ==
    /\ disk' = [f \in Files |-> WriteFile(f, disk[f], MemoryOf(f, succ, nf, sb, urls), w[f])]
    /\ faults' = faults + FaultsIn(w)

\* History: a save with outcomes w took place; what was in memory then, for
\* each file that was written, and the failure counts of the backends.
Saved(h, w, succ, nf, sb, urls) ==
    [h EXCEPT !.unsaved = 0,
              !.saved_urls = IF w["accessed_urls_file"] = "written" THEN urls ELSE @,
              !.saved = [succ |-> IF w["success_file"] = "written" THEN succ ELSE @.succ,
                         nf |-> IF w["not_found_file"] = "written" THEN nf ELSE @.nf,
                         sb |-> IF w["blocked_status_file"] = "written" THEN sb ELSE @.sb,
                         failures |-> BACKEND_FAILURES]]

\* Mutant of LoadFile: a file that cannot be loaded ends the loading.
LoadAllOrNothing(f) ==
    IF \A g \in Files : disk[g].state = "ok" THEN disk[f].data ELSE EmptyData(f)

\* Mutant of LoadFile: nothing is read from the file.
LoadNothing(f) == EmptyData(f)

\* One block of load_persistent_data: a file that does not exist, or whose load
\* raises, leaves the value the function started with.
LoadFile(f) == IF disk[f].state = "ok" THEN disk[f].data ELSE EmptyData(f)

\* Mutant of LoadBlocked: the 'last_block_time' key is not copied.
LoadBlockedFlags ==
    LET loaded_blocked == IF disk["blocked_status_file"].state = "ok"
                          THEN disk["blocked_status_file"].data ELSE InitialBlocked
    IN  [blocked |-> [b \in search_backends |->
                        IF b \in DOMAIN loaded_blocked.blocked
                        THEN loaded_blocked.blocked[b] ELSE FALSE],
         last_block_time |-> EmptyDict]

\* The keys of the JSON object that are backends or 'last_block_time' are copied
\* over the initial dict.
LoadBlocked ==
    LET loaded_blocked == LoadFile("blocked_status_file")
    IN  [blocked |-> [b \in search_backends |->
                        IF b \in DOMAIN loaded_blocked.blocked
                        THEN loaded_blocked.blocked[b] ELSE FALSE],
         last_block_time |-> loaded_blocked.last_block_time]

(***************************************************************************)
(* The state before the first run: no state file exists.                   *)
(***************************************************************************)
Init ==
    /\ disk = [f \in Files |-> MissingFile(f)]
    /\ pc = "start"
    /\ successful_products = {}
    /\ not_found_products = {}
    /\ search_blocked = InitialBlocked
    /\ ACCESSED_URLS = {}
    /\ BACKEND_FAILURES = EmptyDict
    /\ CONSECUTIVE_FAILURES = 0
    /\ LAST_REQUEST_TIME = EmptyDict
    /\ rescrape_successful = FALSE
    /\ products_to_process = {}
    /\ i = 0
    /\ cur = NoProduct
    /\ available_backends = {}
    /\ product_url = NoUrl
    /\ now = 0
    /\ runs = 1
    /\ faults = 0
    /\ hist = [loaded_successful |-> {}, loaded_not_found |-> {},
               sent |-> {}, resent |-> {}, unsaved |-> 0,
               answered |-> FALSE, fetched |-> NoUrl, unprocessed |-> {},
               loaded_urls |-> FALSE, cooled |-> FALSE, saved_urls |-> {},
               backoff |-> EmptyDict, killed |-> FALSE, transient |-> FALSE,
               rejected_without_404 |-> {},
               candidates |-> <<>>, checked |-> EmptyDict, completed |-> FALSE,
               validated |-> [url |-> NoUrl, valid |-> FALSE],
               delay |-> [channel |-> "", computed |-> 0, slept |-> 0],
               final_saved |-> FALSE,
               direct |-> [kind |-> "none", final_url |-> NoUrl, links |-> <<>>],
               saved |-> [succ |-> {}, nf |-> {}, sb |-> InitialBlocked,
                          failures |-> EmptyDict]]

(***************************************************************************)
(* The visited-URL registry and the requests.                              *)
(***************************************************************************)
\* Mutant of ExistsResult: every checked URL is taken to exist.
ExistsAlways(o) == TRUE

\* Mutant of has_url_been_accessed: no URL counts as accessed.
never_accessed(url, accessed) == FALSE

has_url_been_accessed(url, accessed) == url \in accessed

\* Mutant of mark_url_accessed: the URL is not added.
mark_url_not_accessed(url, accessed) == accessed

\* Mutant of mark_url_accessed: the registry is replaced, not extended.
mark_url_accessed_replacing(url, accessed) == {url}

mark_url_accessed(url, accessed) == accessed \cup {url}

\* History: an HTTP request goes out to url.
Request(h, url) ==
    [h EXCEPT !.resent = IF url \in h.sent THEN @ \cup {url} ELSE @,
              !.sent = @ \cup {url}]

\* check_product_exists: what the HEAD answers and, for a status that is
\* neither 200 nor 404, what the GET answers.
CheckOutcomes ==
    {"head_200", "head_404", "head_raises",
     "get_200", "get_404", "get_other", "get_raises"}
UsesGet(o) == o \in {"get_200", "get_404", "get_other", "get_raises"}
\* returns False on a 404 and on a GET status other than 200, True on a 200
\* and on an exception
ExistsResult(o) == o \in {"head_200", "get_200", "head_raises", "get_raises"}

\* The site answered 404 to the HEAD or to the GET.
Observed404(o) == o \in {"head_404", "get_404"}

\* History: check_product_exists returned False for url without a 404.
Rejected(h, url, o) ==
    [h EXCEPT !.rejected_without_404 =
                  IF ~ExistsResult(o) /\ ~Observed404(o) THEN @ \cup {url} ELSE @]

\* History: the existence check of url was made, and what it returned.
Checked(h, url, o) ==
    [h EXCEPT !.checked = DictSet(@, url, o \in {"head_200", "get_200",
                                                 "head_raises", "get_raises"})]

\* History: a resolve begins; the candidates and checks of the last one are
\* forgotten.
Forget(h) ==
    [h EXCEPT !.candidates = <<>>, !.checked = EmptyDict, !.completed = FALSE,
              !.direct = [kind |-> "none", final_url |-> NoUrl, links |-> <<>>]]

\* History: the candidates and checks of a resolve, and whether its query
\* was answered without an error, are kept where env.walk asks for them.
Walked(env, h) == IF env.walk THEN h ELSE Forget(h)

\* check_product_exists(url) with outcome o: the URL is marked, then requested.
check_product_exists(url, o, accessed, h) ==
    [exists |-> ExistsResult(o),
     accessed |-> mark_url_accessed(url, accessed),
     h |-> Checked(Rejected(IF UsesGet(o) THEN Request(Request(h, url), url)
                            ELSE Request(h, url),
                            url, o),
                   url, o)]

\* search_with_ddgs, lines 252-262: the valid product URLs of the results,
\* cleaned, without duplicates, in result order
RECURSIVE Collect(_, _)
Collect(results, argos_urls) ==
    IF results = <<>> THEN argos_urls
    ELSE LET url == StripQuery(Head(results))
         IN  Collect(Tail(results),
                     IF is_valid_product_url(url) /\ url \notin Range(argos_urls)
                     THEN Append(argos_urls, url)
                     ELSE argos_urls)

\* search_with_ddgs, lines 264-287: the ways the walk over the candidates can
\* end, one for every answer of the site to the existence checks.
RECURSIVE WalkCandidates(_, _, _)
WalkCandidates(argos_urls, accessed, h) ==
    IF argos_urls = <<>> THEN {[url |-> NoUrl, accessed |-> accessed, h |-> h]}
    ELSE LET url == Head(argos_urls)
         IN  IF has_url_been_accessed(url, accessed)
             THEN WalkCandidates(Tail(argos_urls), accessed, h)
             ELSE UNION {
                    LET c == check_product_exists(url, o, accessed, h)
                    IN  IF c.exists
                        THEN {[url |-> url, accessed |-> c.accessed, h |-> c.h]}
                        ELSE WalkCandidates(Tail(argos_urls), c.accessed, c.h)
                    : o \in CheckOutcomes}

\* What ddgs.text does: raise an error or return results.  Of the message of
\* an error the code reads which of 'ratelimit', 'timeout', 'no results found'
\* it holds (kind: the first of them, "error" if none) and whether '202' or
\* '429' occurs in it (code).
SearchErrors ==
    {[kind |-> k, code |-> c, results |-> <<>>] :
        k \in {"ratelimit", "timeout", "no results found", "error"}, c \in BOOLEAN}
SearchAnswers ==
    SearchErrors
    \cup {[kind |-> "results", code |-> FALSE, results |-> r] :
            r \in SeqsUpTo(Hrefs, MaxResults)}

\* Mutant of RateLimited: a timeout counts as a rate limit.
RateLimitedOrTimeout(a) ==
    a \in SearchErrors /\ (a.kind \in {"ratelimit", "timeout"} \/ a.code)

\* search_with_ddgs, lines 295-300: the error is taken for a rate limit and the
\* search returns success = False; every other answer returns success = True
RateLimited(a) == a \in SearchErrors /\ (a.kind = "ratelimit" \/ a.code)

\* History: the search raised an error whose message holds none of
\* 'ratelimit', '202', '429'.
Unsigned(a) == a \in SearchErrors /\ a.kind # "ratelimit" /\ ~a.code

\* The errors the envs draw from: a plain rate limit, a plain other error.
PlainRateLimit == [kind |-> "ratelimit", code |-> FALSE, results |-> <<>>]
PlainError == [kind |-> "error", code |-> FALSE, results |-> <<>>]

\* What the GET of search_argos_direct does: raise, answer a status other than
\* 200, or answer 200 at final_url with a page of links.
DirectAnswers(search_url) ==
    {[kind |-> "raises", final_url |-> NoUrl, links |-> <<>>],
     [kind |-> "status", final_url |-> NoUrl, links |-> <<>>]}
    \cup {[kind |-> "ok", final_url |-> f, links |-> l] :
            f \in {search_url, P1, P2, ClickSR}, l \in SeqsUpTo(PageLinks, MaxResults)}

\* search_argos_direct, lines 376-385
RECURSIVE ProductLinks(_, _, _)
ProductLinks(links, accessed, product_links) ==
    IF links = <<>> THEN product_links
    ELSE LET href == IF Head(links).http THEN Head(links) ELSE Absolute(Head(links))
         IN  ProductLinks(Tail(links), accessed,
                 IF /\ MatchesProductId(Head(links))
                    /\ is_valid_product_url(href)
                    /\ ~has_url_been_accessed(href, accessed)
                 THEN Append(product_links, href)
                 ELSE product_links)

\* search_argos_direct, lines 364-406, for an answer a; accessed already holds
\* the search URL
DirectResult(a, accessed) ==
    IF a.kind # "ok" THEN NoUrl
    ELSE IF is_valid_product_url(a.final_url) THEN a.final_url
    ELSE LET method1 == ProductLinks(a.links, accessed, <<>>)
             method2 ==
                IF /\ method1 = <<>>
                   /\ a.final_url.query
                   /\ MatchesProductId(a.final_url)
                   /\ is_valid_product_url(ProductOf(a.final_url))
                   /\ ~has_url_been_accessed(ProductOf(a.final_url), accessed)
                THEN <<ProductOf(a.final_url)>>
                ELSE method1
         IN  IF method2 # <<>> THEN method2[1] ELSE NoUrl

(***************************************************************************)
(* main                                                                    *)
(*                                                                         *)
(* Every action takes env, the environment of the behaviour: the rows the  *)
(* CSV can hold (env.products) and how many (env.rows), the durations a    *)
(* sleep with its request or a pause between runs can take (env.elapsed),  *)
(* the last clock value explored (env.max_time), what the search backends  *)
(* answer (env.search) and whether runs may set rescrape_successful        *)
(* (env.rescrape), how often the script runs (env.max_runs), how many      *)
(* faults happen (env.max_faults), whether the history keeps the           *)
(* candidates of a search (env.walk) and whether LAST_REQUEST_TIME is kept *)
(* (env.clock).                                                            *)
(***************************************************************************)
\* adaptive_delay, lines 189-191, as main and find_product_url_enhanced call
\* it: the time after the sleep is recorded for the channel.  The sleeps of
\* these calls are drawn from env.elapsed whatever the dict holds, and they
\* keep the dict only where env.clock asks for it.
Requested(env, last_request_time, channel, t) ==
    IF env.clock THEN DictSet(last_request_time, channel, t) ELSE last_request_time

\* The process exits: its memory is gone.
ProcessExit ==
    /\ pc' = "done"
    /\ successful_products' = {}
    /\ not_found_products' = {}
    /\ search_blocked' = InitialBlocked
    /\ ACCESSED_URLS' = {}
    /\ BACKEND_FAILURES' = EmptyDict
    /\ CONSECUTIVE_FAILURES' = 0
    /\ LAST_REQUEST_TIME' = EmptyDict
    /\ rescrape_successful' = FALSE
    /\ products_to_process' = {}
    /\ i' = 0
    /\ cur' = NoProduct
    /\ available_backends' = {}
    /\ product_url' = NoUrl

\* Mutant of Keep: the not-found products are not filtered out.
KeepNotFound(product_id, succ, nf, rescrape) ==
    ~(product_id \in succ /\ ~rescrape)

\* main, lines 792-804: the entries of the CSV that stay in the list
Keep(product_id, succ, nf, rescrape) ==
    /\ ~(product_id \in succ /\ ~rescrape)
    /\ product_id \notin nf

ToProcess(env, succ, nf, rescrape) ==
    {p \in env.products : Keep(p[1], succ, nf, rescrape)}

\* main up to the loop: load the state, read the CSV, filter it.  The list is
\* not empty; its entries are drawn one by one as the loop reaches them.
Start(env) ==
    /\ pc = "start"
    /\ \E rescrape \in env.rescrape :
        LET succ == LoadFile("success_file")
            nf == LoadFile("not_found_file")
        IN  /\ ToProcess(env, succ, nf, rescrape) # {}
            /\ successful_products' = succ
            /\ not_found_products' = nf
            /\ search_blocked' = LoadBlocked
            /\ ACCESSED_URLS' = LoadFile("accessed_urls_file")
            /\ rescrape_successful' = rescrape
            /\ products_to_process' = ToProcess(env, succ, nf, rescrape)
            /\ hist' = [hist EXCEPT !.loaded_successful = succ,
                                    !.loaded_not_found = nf,
                                    !.loaded_urls = disk["accessed_urls_file"].state = "ok",
                                    !.unsaved = 0,
                                    !.unprocessed = {},
                                    !.killed = FALSE,
                                    !.final_saved = FALSE]
    /\ pc' = "loop"
    /\ i' = 0
    /\ UNCHANGED <<disk, BACKEND_FAILURES, CONSECUTIVE_FAILURES, cur,
                   available_backends, product_url, now, runs, faults,
                   LAST_REQUEST_TIME>>

\* main, lines 788-790 and 810-812: the CSV has no rows, or none is left after
\* the filter: main returns without saving.
NothingToProcess(env) ==
    /\ pc = "start"
    /\ ProcessExit
    /\ UNCHANGED <<disk, now, runs, faults, hist>>

\* main, lines 824-828: at FailureThreshold consecutive failures the long
\* cooldown is slept (adaptive_delay(None, True): block_cooldown plus jitter,
\* taken as 0 here) and the counter is reset.
\* Mutant of TooManyFailures: the counter has to be above the threshold.
TooManyFailuresAbove == CONSECUTIVE_FAILURES > FailureThreshold

TooManyFailures == CONSECUTIVE_FAILURES >= FailureThreshold
TimeAfterBreaker == IF TooManyFailures THEN now + block_cooldown ELSE now
FailuresAfterBreaker == IF TooManyFailures THEN 0 ELSE CONSECUTIVE_FAILURES

\* Mutant of CooldownPassed: the cooldown has to be exceeded.
CooldownExceeded(sb, backend, t) ==
    /\ backend \in DOMAIN sb.last_block_time
    /\ t - sb.last_block_time[backend] > block_cooldown

\* find_product_url_enhanced, lines 422-431: a blocked backend whose cooldown
\* has passed at time t.  A blocked backend without a block time stays blocked.
CooldownPassed(sb, backend, t) ==
    /\ backend \in DOMAIN sb.last_block_time
    /\ t - sb.last_block_time[backend] >= block_cooldown

\* find_product_url_enhanced, lines 420-433
AvailableBackends(sb, t) ==
    {b \in search_backends : ~sb.blocked[b] \/ CooldownPassed(sb, b, t)}

Unblocked(sb, t) ==
    [sb EXCEPT !.blocked = [b \in search_backends |->
                                IF sb.blocked[b] /\ CooldownPassed(sb, b, t)
                                THEN FALSE ELSE sb.blocked[b]]]

\* Mutant of RecordBlock: the flag is set, the block time is not recorded.
RecordBlockFlagOnly(sb, backend, t) ==
    [sb EXCEPT !.blocked[backend] = TRUE]

\* Mutant of RecordBlock: every backend is flagged.
RecordBlockEvery(sb, backend, t) ==
    [blocked |-> [b \in search_backends |-> TRUE],
     last_block_time |-> DictSet(sb.last_block_time, backend, t)]

\* Mutant of RecordBlock: the block time is recorded, the flag is not set.
RecordBlockTimeOnly(sb, backend, t) ==
    [sb EXCEPT !.last_block_time = DictSet(sb.last_block_time, backend, t)]

\* find_product_url_enhanced, lines 451-454: the backend hit a rate limit at t
RecordBlock(sb, backend, t) ==
    [blocked |-> [sb.blocked EXCEPT ![backend] = TRUE],
     last_block_time |-> DictSet(sb.last_block_time, backend, t)]

\* An iteration for an EAN begins: the breaker, then find_product_url_enhanced
\* up to the shuffled list of available backends (the order of the shuffle is
\* the order in which TryBackend draws from the set).
BeginEan(env) ==
    /\ pc = "loop"
    /\ i < env.rows
    /\ TimeAfterBreaker <= env.max_time
    /\ \E p \in products_to_process :
        /\ p[2] = "ean"
        /\ cur' = p
    /\ i' = i + 1
    /\ now' = TimeAfterBreaker
    /\ CONSECUTIVE_FAILURES' = FailuresAfterBreaker
    /\ search_blocked' = Unblocked(search_blocked, TimeAfterBreaker)
    /\ available_backends' = AvailableBackends(search_blocked, TimeAfterBreaker)
    /\ pc' = IF available_backends' = {} THEN "post" ELSE "backends"
    /\ product_url' = NoUrl
    /\ hist' = [Forget(hist) EXCEPT !.answered = FALSE, !.fetched = NoUrl,
                                    !.cooled = TooManyFailures, !.transient = FALSE]
    /\ UNCHANGED <<disk, successful_products, not_found_products, ACCESSED_URLS,
                   BACKEND_FAILURES, rescrape_successful, products_to_process,
                   runs, faults,
                   LAST_REQUEST_TIME>>

\* Mutant of ResetFailures: the count is left as it is.
KeepFailures(failures, backend, url) == failures

\* search_with_ddgs, lines 277-282: a candidate exists and is returned; the
\* count of the backend, if it has one, is set to 0
ResetFailures(failures, backend, url) ==
    IF url # NoUrl /\ backend \in DOMAIN failures
    THEN DictSet(failures, backend, 0)
    ELSE failures

\* Mutant of BackendsLeft: the loop goes on whatever the search returned.
BackendsLeftAlways(success, backends, backend) == backends \ {backend}

\* find_product_url_enhanced, lines 449-466: the loop over the backends goes
\* on after success = False, and is left by a return after success = True
BackendsLeft(success, backends, backend) ==
    IF success THEN {} ELSE backends \ {backend}

\* find_product_url_enhanced, lines 442-466: one turn of the loop over the
\* available backends: adaptive_delay, search_with_ddgs, and what follows.
TryBackend(env) ==
    /\ pc = "backends"
    /\ \E backend \in available_backends, d \in env.elapsed, a \in env.search :
        /\ now + d <= env.max_time
        /\ now' = now + d
        /\ LAST_REQUEST_TIME' = Requested(env, LAST_REQUEST_TIME, backend, now')
        /\ IF RateLimited(a)
           THEN \* search_with_ddgs lines 297-300, then lines 449-456
                /\ BACKEND_FAILURES' =
                       DictSet(BACKEND_FAILURES, backend,
                               DictGet(BACKEND_FAILURES, backend, 0) + 1)
                /\ search_blocked' = RecordBlock(search_blocked, backend, now')
                /\ CONSECUTIVE_FAILURES' = CONSECUTIVE_FAILURES + 1
                /\ available_backends' = BackendsLeft(FALSE, available_backends, backend)
                /\ product_url' = NoUrl
                /\ hist' = [hist EXCEPT !.transient = Unsigned(a)]
                /\ UNCHANGED ACCESSED_URLS
           ELSE \E w \in WalkCandidates(Collect(a.results, <<>>), ACCESSED_URLS,
                                        [hist EXCEPT
                                           !.candidates = Collect(a.results, <<>>),
                                           !.completed = a.kind = "results"]) :
                /\ BACKEND_FAILURES' = ResetFailures(BACKEND_FAILURES, backend, w.url)
                /\ ACCESSED_URLS' = w.accessed
                /\ hist' = [Walked(env, w.h) EXCEPT !.answered = TRUE,
                                       !.transient = Unsigned(a)]
                /\ CONSECUTIVE_FAILURES' = 0
                /\ product_url' = w.url
                /\ available_backends' = BackendsLeft(TRUE, available_backends, backend)
                /\ UNCHANGED search_blocked
    /\ pc' = IF available_backends' = {} THEN "post" ELSE "backends"
    /\ UNCHANGED <<disk, successful_products, not_found_products,
                   rescrape_successful, products_to_process, i, cur, runs, faults>>

\* An iteration for a model number: the breaker, then find_product_url_enhanced
\* lines 469-483: adaptive_delay('argos', is_argos_search=True) and
\* search_argos_direct.
BeginModel(env) ==
    /\ pc = "loop"
    /\ i < env.rows
    /\ \E p \in products_to_process, d \in env.elapsed :
        /\ p[2] = "model"
        /\ cur' = p
        /\ TimeAfterBreaker + d <= env.max_time
        /\ now' = TimeAfterBreaker + d
        /\ LAST_REQUEST_TIME' = Requested(env, LAST_REQUEST_TIME, "argos", now')
        /\ LET search_url == SearchUrl(p[1])
               h == [Forget(hist) EXCEPT !.fetched = NoUrl,
                                         !.cooled = TooManyFailures,
                                         !.transient = FALSE]
           IN  IF has_url_been_accessed(search_url, ACCESSED_URLS)
               THEN /\ product_url' = NoUrl
                    /\ hist' = [h EXCEPT !.answered = FALSE]
                    /\ UNCHANGED ACCESSED_URLS
               ELSE \E a \in DirectAnswers(search_url) :
                    /\ ACCESSED_URLS' = mark_url_accessed(search_url, ACCESSED_URLS)
                    /\ product_url' = DirectResult(a, ACCESSED_URLS')
                    /\ hist' = [Request(h, search_url) EXCEPT
                                    !.answered = (a.kind = "ok"),
                                    !.completed = env.walk /\ a.kind = "ok",
                                    !.direct = IF env.walk THEN a ELSE @]
    /\ i' = i + 1
    /\ CONSECUTIVE_FAILURES' = 0
    /\ available_backends' = {}
    /\ pc' = "post"
    /\ UNCHANGED <<disk, successful_products, not_found_products, search_blocked,
                   BACKEND_FAILURES, rescrape_successful, products_to_process,
                   runs, faults>>

\* main, lines 836-837
AllBlocked(sb) == \A backend \in search_backends : sb.blocked[backend]

\* Mutant of AllBlockedCase: the check is made for every search type.
AllBlockedAnyType(search_type, sb) == AllBlocked(sb)

\* main, lines 835-838: the check is made for EAN searches only
AllBlockedCase(search_type, sb) == search_type = "ean" /\ AllBlocked(sb)

\* main, lines 843-849: the remaining cooldowns that are positive; min_wait_time
\* is their minimum, and stays infinite when there is none
RemainingCooldowns(sb, t) ==
    {r \in {block_cooldown - (t - sb.last_block_time[b]) :
                b \in search_backends \cap DOMAIN sb.last_block_time} : r > 0}
Min(S) == CHOOSE x \in S : \A y \in S : x <= y

\* main, lines 851-855: the loop is left
ResumeLater(sb, t) ==
    /\ RemainingCooldowns(sb, t) # {}
    /\ Min(RemainingCooldowns(sb, t)) > ResumeLaterThreshold

\* main, lines 833-856: no URL for an EAN and every backend blocked: the state
\* is saved, and the loop is left (the rows after this one stay unprocessed) or
\* goes on with the next row.
PostAllBlocked(env) ==
    /\ pc = "post"
    /\ product_url = NoUrl
    /\ AllBlockedCase(cur[2], search_blocked)
    /\ \E w \in WriteOutcomes(env) :
        /\ save_persistent_data(w, successful_products, not_found_products,
                                search_blocked, ACCESSED_URLS)
        /\ IF ResumeLater(search_blocked, now)
           THEN /\ pc' = "final"
                /\ \E rest \in SUBSET products_to_process :
                       hist' = [Saved(hist, w, successful_products, not_found_products,
                                      search_blocked, ACCESSED_URLS)
                                    EXCEPT !.unprocessed = rest]
           ELSE /\ pc' = "loop"
                /\ hist' = Saved(hist, w, successful_products, not_found_products,
                                 search_blocked, ACCESSED_URLS)
    /\ UNCHANGED <<successful_products, not_found_products, search_blocked,
                   ACCESSED_URLS, BACKEND_FAILURES, CONSECUTIVE_FAILURES,
                   rescrape_successful, products_to_process, i, cur,
                   available_backends, product_url, now, runs,
                   LAST_REQUEST_TIME>>

\* main, lines 858-861: no URL otherwise: the product is recorded as not found
PostNotFound(env) ==
    /\ pc = "post"
    /\ product_url = NoUrl
    /\ ~AllBlockedCase(cur[2], search_blocked)
    /\ not_found_products' = not_found_products \cup {cur[1]}
    /\ hist' = [hist EXCEPT !.unsaved = @ + 1]
    /\ pc' = "loop"
    /\ UNCHANGED <<disk, successful_products, search_blocked, ACCESSED_URLS,
                   BACKEND_FAILURES, CONSECUTIVE_FAILURES, rescrape_successful,
                   products_to_process, i, cur, available_backends, product_url,
                   now, runs, faults,
                   LAST_REQUEST_TIME>>

\* scrape_product after a page fetch that was dispatched: the request fails
\* (with max_retries = 1 there is no second attempt, and a second attempt would
\* find the URL accessed), no product data is found, the JSON file cannot be
\* written, or the record is saved.
ScrapeOutcomes == {"saved", "request_fails", "no_data", "write_fails"}

\* main, lines 863-876: a URL was found: the delay (from the second row on),
\* scrape_product, and the save of every SaveEvery-th row
PostScrape(env) ==
    /\ pc = "post"
    /\ product_url # NoUrl
    /\ \E d \in (IF i > 1 THEN env.elapsed ELSE {0}) :
        /\ now + d <= env.max_time
        /\ now' = now + d
    /\ LAST_REQUEST_TIME' = IF i > 1
                            THEN Requested(env, LAST_REQUEST_TIME, "scrape", now')
                            ELSE LAST_REQUEST_TIME
    /\ \E scraped \in BOOLEAN, w \in WriteOutcomes(env) :
        /\ IF has_url_been_accessed(product_url, ACCESSED_URLS)
           THEN \* fetch_page_content, lines 599-601
                /\ ~scraped
                /\ UNCHANGED ACCESSED_URLS
           ELSE /\ scraped \in {o = "saved" : o \in ScrapeOutcomes}
                /\ ACCESSED_URLS' = mark_url_accessed(product_url, ACCESSED_URLS)
        /\ successful_products' =
               IF scraped THEN successful_products \cup {cur[1]} ELSE successful_products
        /\ LET fetched == IF has_url_been_accessed(product_url, ACCESSED_URLS)
                          THEN NoUrl ELSE product_url
               h == [(IF fetched = NoUrl THEN hist ELSE Request(hist, fetched))
                        EXCEPT !.fetched = fetched]
           IN  IF i % SaveEvery = 0
               THEN /\ save_persistent_data(w, successful_products', not_found_products,
                                            search_blocked, ACCESSED_URLS')
                    /\ hist' = Saved(h, w, successful_products', not_found_products,
                                     search_blocked, ACCESSED_URLS')
               ELSE /\ FaultsIn(w) = 0
                    /\ hist' = [h EXCEPT !.unsaved = @ + 1]
                    /\ UNCHANGED <<disk, faults>>
    /\ pc' = "loop"
    /\ UNCHANGED <<not_found_products, search_blocked, BACKEND_FAILURES,
                   CONSECUTIVE_FAILURES, rescrape_successful, products_to_process,
                   i, cur, available_backends, product_url, runs>>

\* The list is exhausted.
EndLoop(env) ==
    /\ pc = "loop"
    /\ i >= 1
    /\ pc' = "final"
    /\ UNCHANGED <<disk, successful_products, not_found_products, search_blocked,
                   ACCESSED_URLS, BACKEND_FAILURES, CONSECUTIVE_FAILURES,
                   rescrape_successful, products_to_process, i, cur,
                   available_backends, product_url, now, runs, faults, hist,
                   LAST_REQUEST_TIME>>

\* Mutant of FinalSave: the process ends without the final save.
ExitWithoutSave(env) ==
    /\ pc = "final"
    /\ ProcessExit
    /\ UNCHANGED <<disk, now, runs, faults, hist>>

\* main, line 879 to the end: the final save, and the process ends.  History:
\* the final save of the run was made.
FinalSave(env) ==
    /\ pc = "final"
    /\ \E w \in WriteOutcomes(env) :
        /\ save_persistent_data(w, successful_products, not_found_products,
                                search_blocked, ACCESSED_URLS)
        /\ hist' = [Saved(hist, w, successful_products, not_found_products,
                          search_blocked, ACCESSED_URLS)
                        EXCEPT !.final_saved = TRUE]
    /\ ProcessExit
    /\ UNCHANGED <<now, runs>>

\* The process is killed inside the loop: nothing is saved.
Crash(env) ==
    /\ pc \in {"loop", "backends", "post", "final"}
    /\ faults < env.max_faults
    /\ faults' = faults + 1
    /\ ProcessExit
    /\ hist' = [hist EXCEPT !.killed = TRUE]
    /\ UNCHANGED <<disk, now, runs>>

\* Between two runs a state file is deleted or damaged.
DamageFile(env) ==
    /\ pc = "done"
    /\ faults < env.max_faults
    /\ faults' = faults + 1
    /\ \E f \in Files :
        \E damaged \in {MissingFile(f), CorruptFile(f)} :
            /\ disk[f] # damaged
            /\ disk' = [disk EXCEPT ![f] = damaged]
    /\ UNCHANGED <<pc, successful_products, not_found_products, search_blocked,
                   ACCESSED_URLS, BACKEND_FAILURES, CONSECUTIVE_FAILURES,
                   rescrape_successful, products_to_process, i, cur,
                   available_backends, product_url, now, runs, hist,
                   LAST_REQUEST_TIME>>

\* The script is started again, some time later.
NewRun(env) ==
    /\ pc = "done"
    /\ runs < env.max_runs
    /\ runs' = runs + 1
    /\ \E d \in env.elapsed :
        /\ now + d <= env.max_time
        /\ now' = now + d
    /\ pc' = "start"
    /\ UNCHANGED <<disk, successful_products, not_found_products, search_blocked,
                   ACCESSED_URLS, BACKEND_FAILURES, CONSECUTIVE_FAILURES,
                   rescrape_successful, products_to_process, i, cur,
                   available_backends, product_url, faults, hist,
                   LAST_REQUEST_TIME>>

(***************************************************************************)
(* RATE LIMITING: the failure counts of the backends and adaptive_delay.   *)
(***************************************************************************)
RECURSIVE Pow(_, _)
Pow(b, n) == IF n = 0 THEN 1 ELSE b * Pow(b, n - 1)

\* Mutant of backoff_delay: the maximum is not applied.
backoff_delay_unbounded(failures) ==
    min_delay * Pow(exponential_backoff_base, failures)

\* adaptive_delay, lines 171-174
backoff_delay(failures) ==
    Min({min_delay * Pow(exponential_backoff_base, failures), max_backoff_delay})

\* adaptive_delay, lines 163-177 with is_blocked and is_argos_search False: the
\* base delays; of random.uniform(min_delay, max_delay), the two ends
BaseDelays(backend, failures) ==
    IF backend \in DOMAIN failures
    THEN {backoff_delay(failures[backend])}
    ELSE {min_delay, max_delay}

\* search_with_ddgs, lines 297-300: the search on backend raises a rate limit
RateLimitHit(env) ==
    /\ pc = "start"
    /\ \E backend \in env.backends :
        /\ DictGet(BACKEND_FAILURES, backend, 0) < env.max_failures
        /\ BACKEND_FAILURES' =
               DictSet(BACKEND_FAILURES, backend,
                       DictGet(BACKEND_FAILURES, backend, 0) + 1)
    /\ UNCHANGED <<disk, pc, successful_products, not_found_products,
                   search_blocked, ACCESSED_URLS, CONSECUTIVE_FAILURES,
                   rescrape_successful, products_to_process, i, cur,
                   available_backends, product_url, now, runs, faults, hist,
                   LAST_REQUEST_TIME>>

\* search_with_ddgs, lines 277-282: a candidate of backend exists; the count of
\* a backend that has one is reset.  History: the backoff seen for it is
\* forgotten.
ProductExists(env) ==
    /\ pc = "start"
    /\ \E backend \in env.backends :
        /\ backend \in DOMAIN BACKEND_FAILURES
        /\ BACKEND_FAILURES' = DictSet(BACKEND_FAILURES, backend, 0)
        /\ hist' = [hist EXCEPT !.backoff =
                        [b \in DOMAIN @ \ {backend} |-> @[b]]]
    /\ UNCHANGED <<disk, pc, successful_products, not_found_products,
                   search_blocked, ACCESSED_URLS, CONSECUTIVE_FAILURES,
                   rescrape_successful, products_to_process, i, cur,
                   available_backends, product_url, now, runs, faults,
                   LAST_REQUEST_TIME>>

\* Mutant of sleep_delay: the time since the last request is always taken off.
sleep_delay_less_elapsed(delay, backend, last_request_time, t) ==
    IF backend \in DOMAIN last_request_time
    THEN delay - (t - last_request_time[backend])
    ELSE delay

\* adaptive_delay, lines 182-186: the time since the last request of the
\* backend is taken off the delay when it is smaller than the delay
sleep_delay(delay, backend, last_request_time, t) ==
    IF /\ backend \in DOMAIN last_request_time
       /\ t - last_request_time[backend] < delay
    THEN delay - (t - last_request_time[backend])
    ELSE delay

\* adaptive_delay(backend), lines 158-193, with is_blocked False: the base
\* delay (is_argos_search is True in the call for 'argos' and in no other),
\* the jitter (of random.uniform, the two ends), the sleep, and the time after
\* it recorded for the backend.  History: the backoff delay used, the delay
\* as computed before the time since the last request is looked at, and the
\* time slept.
adaptive_delay(env) ==
    /\ pc = "start"
    /\ \E backend \in env.channels :
        \E base \in (IF backend = "argos" THEN {argos_search_delay}
                     ELSE BaseDelays(backend, BACKEND_FAILURES)),
           jitter \in {0, IF backend = "argos" THEN ArgosJitterMax ELSE JitterMax} :
            LET delay == base + jitter
                slept == sleep_delay(delay, backend, LAST_REQUEST_TIME, now)
            IN  /\ now + slept <= env.max_time
                /\ now' = now + slept
                /\ LAST_REQUEST_TIME' = DictSet(LAST_REQUEST_TIME, backend, now')
                /\ hist' = [hist EXCEPT
                               !.backoff = IF backend \in DOMAIN BACKEND_FAILURES
                                           THEN DictSet(@, backend, base) ELSE @,
                               !.delay = [channel |-> backend, computed |-> delay,
                                          slept |-> slept]]
    /\ UNCHANGED <<disk, pc, successful_products, not_found_products,
                   search_blocked, ACCESSED_URLS, BACKEND_FAILURES,
                   CONSECUTIVE_FAILURES, rescrape_successful, products_to_process,
                   i, cur, available_backends, product_url, runs, faults>>

(***************************************************************************)
(* Spec: the batch in detail.  Short lists, every answer of the searches   *)
(* and of the site but rate limits, both settings of rescrape_successful,  *)
(* two runs.                                                               *)
(***************************************************************************)
MaxRows == 2
MaxRuns == 2
MaxTime == 3600
Batch ==
    [products |-> Products, rows |-> MaxRows, elapsed |-> {300},
     max_time |-> MaxTime, search |-> {a \in SearchAnswers : ~RateLimited(a)},
     rescrape |-> BOOLEAN, max_runs |-> MaxRuns, max_faults |-> 0,
     walk |-> FALSE, clock |-> FALSE]

Next ==
    \/ Start(Batch) \/ NothingToProcess(Batch)
    \/ BeginEan(Batch) \/ TryBackend(Batch) \/ BeginModel(Batch)
    \/ PostNotFound(Batch) \/ PostScrape(Batch)
    \/ EndLoop(Batch) \/ FinalSave(Batch) \/ NewRun(Batch)

Spec == Init /\ [][Next]_vars

(***************************************************************************)
(* SpecCooldown: rate limits and cooldowns.  The searches raise a rate     *)
(* limit or another error; a step takes 300 s or 1500 s.                   *)
(***************************************************************************)
CooldownRows == 2
CooldownRuns == 2
CooldownTime == 2700
Cooldown ==
    [products |-> Products, rows |-> CooldownRows, elapsed |-> {300, 1500},
     max_time |-> CooldownTime,
     search |-> {PlainRateLimit, PlainError},
     rescrape |-> {FALSE}, max_runs |-> CooldownRuns, max_faults |-> 0,
     walk |-> FALSE, clock |-> FALSE]

NextCooldown ==
    \/ Start(Cooldown) \/ NothingToProcess(Cooldown)
    \/ BeginEan(Cooldown) \/ TryBackend(Cooldown) \/ BeginModel(Cooldown)
    \/ PostAllBlocked(Cooldown) \/ PostNotFound(Cooldown) \/ PostScrape(Cooldown)
    \/ EndLoop(Cooldown) \/ FinalSave(Cooldown) \/ NewRun(Cooldown)

SpecCooldown == Init /\ [][NextCooldown]_vars

(***************************************************************************)
(* SpecLong: one run over a long list; the searches find nothing.          *)
(***************************************************************************)
LongRows == 6
LongTime == 3600
Long ==
    [products |-> Products, rows |-> LongRows, elapsed |-> {300},
     max_time |-> LongTime,
     search |-> {PlainError},
     rescrape |-> {FALSE}, max_runs |-> 1, max_faults |-> 0,
     walk |-> FALSE, clock |-> TRUE]

NextLong ==
    \/ Start(Long) \/ NothingToProcess(Long)
    \/ BeginEan(Long) \/ TryBackend(Long) \/ BeginModel(Long)
    \/ PostNotFound(Long) \/ PostScrape(Long)
    \/ EndLoop(Long) \/ FinalSave(Long)

SpecLong == Init /\ [][NextLong]_vars

(***************************************************************************)
(* SpecBreaker: one run in which every search is rate-limited and every    *)
(* step takes 1500 s, so that the failures add up while the loop goes on.  *)
(***************************************************************************)
BreakerRows == 5
BreakerTime == 17000
Breaker ==
    [products |-> Products, rows |-> BreakerRows, elapsed |-> {1500},
     max_time |-> BreakerTime,
     search |-> {PlainRateLimit},
     rescrape |-> {FALSE}, max_runs |-> 1, max_faults |-> 0,
     walk |-> FALSE, clock |-> TRUE]

NextBreaker ==
    \/ Start(Breaker) \/ NothingToProcess(Breaker)
    \/ BeginEan(Breaker) \/ TryBackend(Breaker) \/ BeginModel(Breaker)
    \/ PostAllBlocked(Breaker) \/ PostNotFound(Breaker) \/ PostScrape(Breaker)
    \/ EndLoop(Breaker) \/ FinalSave(Breaker)

SpecBreaker == Init /\ [][NextBreaker]_vars
(***************************************************************************)
(* SpecBackoff: the searches of a backend hit rate limits and succeed in   *)
(* any order, and adaptive_delay is called in between.                     *)
(***************************************************************************)
MaxFailures == 7
BackoffTime == 330
Backoff ==
    [backends |-> {"google"}, channels |-> {"google"},
     max_failures |-> MaxFailures, max_time |-> BackoffTime]

NextBackoff == RateLimitHit(Backoff) \/ ProductExists(Backoff) \/ adaptive_delay(Backoff)

SpecBackoff == Init /\ [][NextBackoff]_vars
(***************************************************************************)
(* SpecDelay: adaptive_delay is called for a backend and for 'argos' in    *)
(* any order, with rate limits and successes of the backend in between.    *)
(***************************************************************************)
DelayFailures == 1
DelayTime == 30
Delay ==
    [backends |-> {"google"}, channels |-> {"google", "argos"},
     max_failures |-> DelayFailures, max_time |-> DelayTime]

NextDelay == RateLimitHit(Delay) \/ ProductExists(Delay) \/ adaptive_delay(Delay)

SpecDelay == Init /\ [][NextDelay]_vars

(***************************************************************************)
(* SpecRecover: one run in which a step takes block_cooldown: a backend    *)
(* that hit a rate limit is available again at the next row, and a search  *)
(* hits a rate limit or returns a product URL.                             *)
(***************************************************************************)
RecoverRows == 2
RecoverTime == 5400
Recover ==
    [products |-> Products, rows |-> RecoverRows, elapsed |-> {block_cooldown},
     max_time |-> RecoverTime,
     search |-> {PlainRateLimit,
                 [kind |-> "results", code |-> FALSE, results |-> <<P1>>],
                 [kind |-> "results", code |-> FALSE, results |-> <<P2>>]},
     rescrape |-> {FALSE}, max_runs |-> 1, max_faults |-> 0,
     walk |-> FALSE, clock |-> TRUE]

NextRecover ==
    \/ Start(Recover) \/ NothingToProcess(Recover)
    \/ BeginEan(Recover) \/ TryBackend(Recover) \/ BeginModel(Recover)
    \/ PostNotFound(Recover) \/ PostScrape(Recover)
    \/ EndLoop(Recover) \/ FinalSave(Recover)

SpecRecover == Init /\ [][NextRecover]_vars

(***************************************************************************)
(* SpecStop: one run that goes on as long as its process is running (weak  *)
(* fairness of the steps of main).  A step takes 400 s, so that the fourth *)
(* rate limit of a resolve leaves the loop; the clock allows StopRowTime   *)
(* for a row, more than a row can take.                                    *)
(***************************************************************************)
StopRows == 2
StopRowTime == 4000
Stop ==
    [products |-> Products, rows |-> StopRows, elapsed |-> {400},
     max_time |-> StopRows * StopRowTime,
     search |-> {PlainRateLimit, PlainError},
     rescrape |-> {FALSE}, max_runs |-> 1, max_faults |-> 0,
     walk |-> FALSE, clock |-> FALSE]

NextStop ==
    \/ Start(Stop) \/ NothingToProcess(Stop)
    \/ BeginEan(Stop) \/ TryBackend(Stop) \/ BeginModel(Stop)
    \/ PostAllBlocked(Stop) \/ PostNotFound(Stop) \/ PostScrape(Stop)
    \/ EndLoop(Stop) \/ FinalSave(Stop)

SpecStop == Init /\ [][NextStop]_vars /\ WF_vars(NextStop)

(***************************************************************************)
(* SpecFaults: two runs with a fault: a write of a save fails, the process *)
(* is killed, or a state file is lost or damaged between the runs.  A step *)
(* takes 500 s, so that the loop goes on after the save made when every    *)
(* backend is blocked.  The searches raise errors of every kind.           *)
(***************************************************************************)
FaultRows == 2
FaultRuns == 2
FaultTime == 2500
MaxFaults == 1
Faulty ==
    [products |-> Products, rows |-> FaultRows, elapsed |-> {500},
     max_time |-> FaultTime,
     search |-> SearchErrors,
     rescrape |-> {FALSE}, max_runs |-> FaultRuns, max_faults |-> MaxFaults,
     walk |-> FALSE, clock |-> FALSE]

NextFaults ==
    \/ Start(Faulty) \/ NothingToProcess(Faulty)
    \/ BeginEan(Faulty) \/ TryBackend(Faulty) \/ BeginModel(Faulty)
    \/ PostAllBlocked(Faulty) \/ PostNotFound(Faulty) \/ PostScrape(Faulty)
    \/ EndLoop(Faulty) \/ FinalSave(Faulty)
    \/ Crash(Faulty) \/ DamageFile(Faulty) \/ NewRun(Faulty)

SpecFaults == Init /\ [][NextFaults]_vars

(***************************************************************************)
(* SpecRotation: one run in which a search can give any answer: an error   *)
(* of any kind, with or without '202' or '429' in its message, or results. *)
(***************************************************************************)
RotationRows == 2
RotationTime == 1200
Rotation ==
    [products |-> Products, rows |-> RotationRows, elapsed |-> {300},
     max_time |-> RotationTime, search |-> SearchAnswers,
     rescrape |-> {FALSE}, max_runs |-> 1, max_faults |-> 0,
     walk |-> FALSE, clock |-> FALSE]

NextRotation ==
    \/ Start(Rotation) \/ NothingToProcess(Rotation)
    \/ BeginEan(Rotation) \/ TryBackend(Rotation) \/ BeginModel(Rotation)
    \/ PostAllBlocked(Rotation) \/ PostNotFound(Rotation) \/ PostScrape(Rotation)
    \/ EndLoop(Rotation) \/ FinalSave(Rotation)

SpecRotation == Init /\ [][NextRotation]_vars

(***************************************************************************)
(* SpecWalk: one run of two rows in which the searches answer with results *)
(* or with an error that is not a rate limit, and the site answers the     *)
(* existence checks in every way.                                          *)
(***************************************************************************)
WalkRows == 2
WalkTime == 900
Walk ==
    [products |-> Products, rows |-> WalkRows, elapsed |-> {300},
     max_time |-> WalkTime, search |-> {a \in SearchAnswers : ~RateLimited(a)},
     rescrape |-> {FALSE}, max_runs |-> 1, max_faults |-> 0,
     walk |-> TRUE, clock |-> FALSE]

NextWalk ==
    \/ Start(Walk) \/ NothingToProcess(Walk)
    \/ BeginEan(Walk) \/ TryBackend(Walk) \/ BeginModel(Walk)
    \/ PostNotFound(Walk) \/ PostScrape(Walk)
    \/ EndLoop(Walk) \/ FinalSave(Walk)

SpecWalk == Init /\ [][NextWalk]_vars

(***************************************************************************)
(* SpecUrls: is_valid_product_url is applied to every URL of up to MaxSegs *)
(* path segments.                                                          *)
(***************************************************************************)
MaxSegs == 3
UrlSegs == {"product", "1", "tv", "search", "browse"}
Urls ==
    {Url(http, argos, segs, query) :
        http \in BOOLEAN, argos \in BOOLEAN,
        segs \in SeqsUpTo(UrlSegs, MaxSegs), query \in BOOLEAN}

\* is_valid_product_url(url) is called.  History: the URL and what was
\* returned.
ValidateUrl ==
    /\ pc = "start"
    /\ \E url \in Urls :
        hist' = [hist EXCEPT !.validated =
                     [url |-> url, valid |-> is_valid_product_url(url)]]
    /\ UNCHANGED <<disk, pc, successful_products, not_found_products,
                   search_blocked, ACCESSED_URLS, BACKEND_FAILURES,
                   CONSECUTIVE_FAILURES, rescrape_successful, products_to_process,
                   i, cur, available_backends, product_url, now, runs, faults,
                   LAST_REQUEST_TIME>>

NextUrls == ValidateUrl

SpecUrls == Init /\ [][NextUrls]_vars

(***************************************************************************)
(* The claims                                                              *)
(***************************************************************************)

\* C1: no URL receives a second HTTP request: a request is never dispatched
\* to a URL that was already requested and marked in the registry (the HEAD of
\* the existence check, its fallback GET and the page fetch each count).
C1_NoUrlRequestedTwice == hist.resent = {}

\* C2: when the resolver has returned a URL for an EAN, the extraction step
\* dispatches the page fetch for that URL instead of skipping it.
C2_ResolvedEanUrlIsFetched ==
    (pc = "loop" /\ i >= 1 /\ cur[2] = "ean" /\ product_url # NoUrl)
        => hist.fetched = product_url

\* C3: no identifier is both in successful_products and in not_found_products.
C3_OutcomeSetsDisjoint == successful_products \cap not_found_products = {}

\* C4: an identifier that was in successful_products or not_found_products
\* when the state was loaded is not passed to the resolver in this run, unless
\* rescrape_successful is set.
C4_SettledNotResolvedAgain ==
    (pc \in {"backends", "post"} /\ ~rescrape_successful)
        => cur[1] \notin hist.loaded_successful \cup hist.loaded_not_found

\* C4, its case: a run that loaded a settled identifier, and left it out of
\* the list, resolves another one.
C4_Witness ==
    /\ pc = "post"
    /\ ~rescrape_successful
    /\ hist.loaded_successful \cup hist.loaded_not_found # {}
    /\ products_to_process # Products

\* C5: within a process the registry only grows, and a process that loads the
\* registry file holds every URL the registry held when the file was written.
C5_RegistryKeepsUrls ==
    [][/\ (pc \notin {"start", "done"} /\ pc' # "done")
            => ACCESSED_URLS \subseteq ACCESSED_URLS'
       /\ (pc = "start" /\ pc' = "loop" /\ disk["accessed_urls_file"].state = "ok")
            => hist.saved_urls \subseteq ACCESSED_URLS']_vars

\* C5, its case: a second run works with URLs marked and saved by the first.
C5_Witness ==
    /\ runs = 2
    /\ pc = "post"
    /\ hist.loaded_urls
    /\ hist.saved_urls # {}
    /\ \E url \in ACCESSED_URLS : url \notin hist.saved_urls

\* C6: at most SaveEvery identifiers have been finished since the last save.
C6_AtMostFiveUnsaved == hist.unsaved <= SaveEvery
\* C7: an EAN resolve in which no backend gave an answer other than a rate
\* limit (none was available, or every available one was rate-limited) adds
\* the identifier neither to successful_products nor to not_found_products,
\* and a run that loads it in neither set has it in its list.
C7_BlockedResolveSettlesNothing ==
    [][/\ (pc = "post" /\ cur[2] = "ean" /\ ~hist.answered)
            => /\ successful_products' = successful_products
               /\ not_found_products' = not_found_products
       /\ (pc = "start" /\ pc' = "loop")
            => \A p \in Products :
                  p[1] \notin successful_products' \cup not_found_products'
                      => p \in products_to_process']_vars

\* C7, its case: an EAN row is over, its backends were rate-limited, and the
\* identifier is still in no set.
C7_Witness ==
    /\ pc \in {"loop", "final"}
    /\ i >= 1
    /\ cur[2] = "ean"
    /\ ~hist.answered
    /\ CONSECUTIVE_FAILURES > 0
    /\ cur[1] \notin successful_products \cup not_found_products

\* C8, as claimed: every model-number row of the list is resolved during the
\* run: when the loop is over, no model-number row is left unprocessed.
C8_ModelRowsAlwaysResolved ==
    pc = "final" => \A p \in hist.unprocessed : p[2] # "model"

\* C8, amended: a model-number row the loop reaches is resolved by the direct
\* search whatever the blocked state of the backends, which it leaves as it is,
\* and its outcome never takes the all-blocked path; once the loop has been
\* left, no further row is processed.
C8_ModelRowsUnaffectedByBlocks ==
    [][/\ (pc = "loop" /\ pc' = "post" /\ cur'[2] = "model")
            => /\ SearchUrl(cur'[1]) \in ACCESSED_URLS'
               /\ search_blocked' = search_blocked
       /\ (pc = "post" /\ cur[2] = "model")
            => (pc' = "loop" /\ search_blocked' = search_blocked)
       /\ (pc = "final") => (pc' = "done" /\ i' = 0)]_vars

\* C8, its case: the direct search has answered for a model-number row while
\* every backend is blocked.
C8_Witness ==
    /\ pc = "post"
    /\ cur[2] = "model"
    /\ hist.answered
    /\ AllBlocked(search_blocked)

\* The minimum of C9: the smallest remaining cooldown over the blocked backends
\* that have a block time.
BlockedWithTime(sb) ==
    {b \in search_backends : sb.blocked[b] /\ b \in DOMAIN sb.last_block_time}
MinRemainingCooldown(sb, t) ==
    Min({block_cooldown - (t - sb.last_block_time[b]) : b \in BlockedWithTime(sb)})

\* C9: when an EAN row ends with every backend blocked, the state is saved,
\* and the loop is left if the minimum remaining cooldown exceeds 300 s and
\* goes on with the next row if it does not.
C9_StopsOnMinimumRemaining ==
    [][(/\ pc = "post"
        /\ product_url = NoUrl
        /\ cur[2] = "ean"
        /\ AllBlocked(search_blocked)
        /\ BlockedWithTime(search_blocked) # {}
        /\ pc' # "post")
          => /\ pc' = IF MinRemainingCooldown(search_blocked, now) > ResumeLaterThreshold
                      THEN "final" ELSE "loop"
             /\ disk'["accessed_urls_file"].data = ACCESSED_URLS]_vars

C11_AvailableBackends ==
    [][(pc = "loop" /\ pc' \in {"backends", "post"} /\ cur'[2] = "ean")
          => \A b \in search_backends :
                LET timed == b \in DOMAIN search_blocked.last_block_time
                    since == now' - search_blocked.last_block_time[b]
                IN  /\ (search_blocked.blocked[b] /\ timed /\ since < block_cooldown)
                          => b \notin available_backends'
                    /\ ~search_blocked.blocked[b] => b \in available_backends'
                    /\ (search_blocked.blocked[b] /\ timed /\ since >= block_cooldown)
                          => /\ b \in available_backends'
                             /\ ~search_blocked'.blocked[b]]_vars

\* C11, its case: an EAN resolve has begun with a backend left out because its
\* cooldown runs, and with another one that was unblocked exactly at the end
\* of its cooldown.
C11_Witness ==
    /\ pc = "backends"
    /\ cur[2] = "ean"
    /\ \E b \in search_backends \ available_backends : search_blocked.blocked[b]
    /\ \E b \in available_backends :
          /\ b \in DOMAIN search_blocked.last_block_time
          /\ now - search_blocked.last_block_time[b] = block_cooldown
\* C12: the backoff delay adaptive_delay computes for a backend never exceeds
\* max_backoff_delay, and from one call to the next, with rate limits of the
\* backend and no success of it in between, it does not decrease.
C12_BackoffMonotoneAndCapped ==
    [][\A b \in DOMAIN hist'.backoff :
          /\ hist'.backoff[b] <= max_backoff_delay
          /\ b \in DOMAIN hist.backoff => hist'.backoff[b] >= hist.backoff[b]]_vars

\* C12, its case: a backoff at the maximum has been computed for a backend
\* from a count that would give more without it.
C12_Witness ==
    \E b \in DOMAIN hist.backoff :
        /\ hist.backoff[b] = max_backoff_delay
        /\ b \in DOMAIN BACKEND_FAILURES
        /\ min_delay * Pow(exponential_backoff_base, BACKEND_FAILURES[b]) > max_backoff_delay
\* C13, as claimed: a run that starts after a save has, for every backend, the
\* failure count the saving process had (with the sets, the registry and the
\* blocked state it saved).
C13_RoundTripWithFailureCounts ==
    [][(pc = "start" /\ pc' = "loop" /\ runs >= 2
        /\ \A f \in Files : disk[f].state = "ok")
          => BACKEND_FAILURES' = hist.saved.failures]_vars

\* C13, amended: a run that starts after a save of all four files has the
\* successful and not-found sets, the registry, and for every backend the
\* blocked flag and the block time, that were in memory at the save; the
\* failure counts of the backends are not saved, and the run starts with none.
C13_RoundTrip ==
    [][(pc = "start" /\ pc' = "loop" /\ runs >= 2
        /\ \A f \in Files : disk[f].state = "ok")
          => /\ successful_products' = hist.saved.succ
             /\ not_found_products' = hist.saved.nf
             /\ ACCESSED_URLS' = hist.saved_urls
             /\ search_blocked' = hist.saved.sb
             /\ BACKEND_FAILURES' = EmptyDict
             /\ CONSECUTIVE_FAILURES' = 0]_vars

\* C13, its case: a second run has loaded what a first run saved, with a
\* blocked backend, its block time and its failure count, a product that was
\* not found and the URLs accessed.
C13_Witness ==
    /\ pc = "loop"
    /\ runs = 2
    /\ i = 0
    /\ \E b \in search_backends :
          /\ search_blocked.blocked[b]
          /\ b \in DOMAIN search_blocked.last_block_time
          /\ b \in DOMAIN hist.saved.failures
    /\ not_found_products # {}
    /\ ACCESSED_URLS # {}
\* C14: no step of a run takes an identifier out of successful_products or
\* not_found_products, with or without rescrape_successful, and a run that
\* starts after a save has in each set every identifier that was saved.
C14_OutcomeSetsOnlyGrow ==
    [][/\ (pc \notin {"start", "done"} /\ pc' # "done")
            => /\ successful_products \subseteq successful_products'
               /\ not_found_products \subseteq not_found_products'
       /\ (pc = "start" /\ pc' = "loop" /\ runs >= 2
           /\ disk["success_file"].state = "ok"
           /\ disk["not_found_file"].state = "ok")
            => /\ hist.saved.succ \subseteq successful_products'
               /\ hist.saved.nf \subseteq not_found_products']_vars

\* C14, its case: a second run, with rescrape_successful set, has processed
\* again an identifier it loaded as successful, has fetched no page for it,
\* and still holds it.
C14_Witness ==
    /\ runs = 2
    /\ pc = "loop"
    /\ i >= 1
    /\ rescrape_successful
    /\ cur[1] \in hist.loaded_successful
    /\ hist.fetched = NoUrl
    /\ cur[1] \in successful_products
    /\ hist.saved.succ # {}
\* C15: load_persistent_data never ends the run: a run can start whatever the
\* state of the files, and for each of the four files on its own, the run has
\* what was saved in it if the file can be loaded, and the empty default (the
\* empty set, every backend unblocked) if it is missing or cannot be loaded.
C15_LoadSurvivesBadFiles ==
    [][/\ (pc = "start"
           /\ \E p \in Products : p[1] \notin hist.saved.succ \cup hist.saved.nf)
            => ENABLED Start(Faulty)
       /\ (pc = "start" /\ pc' = "loop")
            => /\ successful_products' =
                    IF disk["success_file"].state = "ok" THEN hist.saved.succ ELSE {}
               /\ not_found_products' =
                    IF disk["not_found_file"].state = "ok" THEN hist.saved.nf ELSE {}
               /\ search_blocked' =
                    IF disk["blocked_status_file"].state = "ok"
                    THEN hist.saved.sb ELSE InitialBlocked
               /\ ACCESSED_URLS' =
                    IF disk["accessed_urls_file"].state = "ok"
                    THEN hist.saved_urls ELSE {}]_vars

\* C15, its case: a second run has started with exactly one file that could
\* not be loaded, after a save of a product not found, of accessed URLS and of
\* a blocked backend.
C15_Witness ==
    /\ pc = "loop"
    /\ runs = 2
    /\ i = 0
    /\ Cardinality({f \in Files : disk[f].state # "ok"}) = 1
    /\ disk["success_file"].state = "ok"
    /\ hist.saved.nf # {}
    /\ hist.saved_urls # {}
    /\ hist.saved.sb # InitialBlocked
\* C16: in a save, each write that fails leaves the other files to be written
\* from memory, and the run goes on as after a save without failure: the loop
\* with the next row or its end after the save of the all-blocked case, the
\* end of the process after the final save.
C16_SaveGoesOnAfterFailedWrite ==
    [][LET memory(f) == MemoryOf(f, successful_products, not_found_products,
                                 search_blocked, ACCESSED_URLS)
           written == {f \in Files : disk'[f] = [state |-> "ok", data |-> memory(f)]}
           all_blocked_save ==
               /\ pc = "post" /\ pc' # "post"
               /\ product_url = NoUrl
               /\ cur[2] = "ean"
               /\ AllBlocked(search_blocked)
           final_save == pc = "final" /\ pc' = "done"
       IN  ((all_blocked_save \/ final_save) /\ ~hist'.killed /\ faults' > faults)
              => /\ Cardinality(written) >= Cardinality(Files) - (faults' - faults)
                 /\ all_blocked_save =>
                       pc' = IF ResumeLater(search_blocked, now) THEN "final" ELSE "loop"]_vars

\* C16, its case: the loop goes on after the save of the all-blocked case, in
\* which one write failed and the three other files were written.
C16_Witness ==
    /\ pc = "loop"
    /\ i >= 1
    /\ faults = 1
    /\ AllBlocked(search_blocked)
    /\ Cardinality({f \in Files :
           disk[f] = [state |-> "ok",
                      data |-> MemoryOf(f, successful_products, not_found_products,
                                        search_blocked, ACCESSED_URLS)]}) = 3
    /\ disk["success_file"].state # "ok"
\* C17: when the search on a backend c raises a rate limit in an EAN resolve,
\* c is flagged blocked with the current time as its block time, its failure
\* count goes up by exactly 1, the flag, block time and failure count of
\* every other backend stay as they are, and the resolve goes on with the
\* remaining available backends for the same product; the run does not end.
C17_RateLimitBlocksOneBackend ==
    [][(pc = "backends" /\ ~hist'.answered)
          => \E c \in available_backends :
                /\ search_blocked'.blocked[c]
                /\ c \in DOMAIN search_blocked'.last_block_time
                /\ search_blocked'.last_block_time[c] = now'
                /\ c \in DOMAIN BACKEND_FAILURES'
                /\ BACKEND_FAILURES'[c] = DictGet(BACKEND_FAILURES, c, 0) + 1
                /\ \A b \in search_backends \ {c} :
                      /\ search_blocked'.blocked[b] = search_blocked.blocked[b]
                      /\ DictGet(search_blocked'.last_block_time, b, -1)
                            = DictGet(search_blocked.last_block_time, b, -1)
                      /\ DictGet(BACKEND_FAILURES', b, -1) = DictGet(BACKEND_FAILURES, b, -1)
                /\ available_backends' = available_backends \ {c}
                /\ pc' = IF available_backends' = {} THEN "post" ELSE "backends"
                /\ cur' = cur /\ i' = i]_vars

\* C17, its case: a backend has hit a rate limit for the second time, is
\* blocked as of now, another backend is blocked since an earlier time, and
\* the resolve has still a backend to try.
C17_Witness ==
    /\ pc = "backends"
    /\ available_backends # {}
    /\ \E c \in search_backends :
          /\ search_blocked.blocked[c]
          /\ DictGet(search_blocked.last_block_time, c, -1) = now
          /\ DictGet(BACKEND_FAILURES, c, 0) >= 2
          /\ \E b \in search_backends \ {c} :
                /\ search_blocked.blocked[b]
                /\ DictGet(search_blocked.last_block_time, b, now) < now
\* C18: in an EAN resolve, the next backend is tried only after a rate limit:
\* the search that gives any other answer (a URL, no results, candidates that
\* are all dead or accessed, a timeout or another error) is the last of the
\* resolve, so that a resolve has at most one such answer.
C18_RotationOnlyAfterRateLimit ==
    [][/\ pc = "backends" => ~hist.answered
       /\ (pc = "backends" /\ hist'.answered)
            => /\ pc' = "post"
               /\ available_backends' = {}
       /\ (pc = "backends" /\ pc' = "backends")
            => /\ Cardinality(available_backends') = Cardinality(available_backends) - 1
               /\ \E c \in available_backends \ available_backends' :
                     /\ search_blocked'.blocked[c]
                     /\ search_blocked'.last_block_time[c] = now']_vars

\* C18, its case: in the first resolve of the run a backend was rate-limited,
\* the next one gave an answer without a URL, and two backends were not tried.
C18_Witness ==
    /\ pc = "post"
    /\ i = 1
    /\ cur[2] = "ean"
    /\ hist.answered
    /\ product_url = NoUrl
    /\ Cardinality({b \in search_backends : search_blocked.blocked[b]}) = 1
    /\ ACCESSED_URLS # {}

\* C19: a search error whose message has no rate-limit signature (a timeout,
\* 'no results found' or any other error, without 'ratelimit', '202' or
\* '429') leaves every backend as it is: no blocked flag, no block time and
\* no failure count changes.
C19_TransientErrorChangesNoBackend ==
    [][(pc = "backends" /\ hist'.transient)
          => /\ search_blocked' = search_blocked
             /\ BACKEND_FAILURES' = BACKEND_FAILURES]_vars

\* C19, its case: after a rate limit on one backend, the search on the next
\* one raised an error without signature; the first is the only one blocked
\* and the only one with a failure count.
C19_Witness ==
    /\ pc = "post"
    /\ cur[2] = "ean"
    /\ hist.transient
    /\ Cardinality({b \in search_backends : search_blocked.blocked[b]}) = 1
    /\ Cardinality(DOMAIN BACKEND_FAILURES) = 1
    /\ \A b \in DOMAIN BACKEND_FAILURES : BACKEND_FAILURES[b] = 1
\* C20: check_product_exists returns False for a candidate only when the site
\* answered 404 to the HEAD or to the fallback GET; with any other outcome (a
\* status that is neither 200 nor 404 on both requests, an exception) the
\* candidate is accepted.
C20_RejectsOnlyOn404 == hist.rejected_without_404 = {}

\* C21: in a search of a backend that returned candidates, the URL found is
\* the first candidate, in the order of the filtered results, that was not in
\* ACCESSED_URLS and whose existence check returned True; a candidate that was
\* in ACCESSED_URLS is neither checked nor requested; every candidate that was
\* checked is in ACCESSED_URLS afterwards, whatever the check returned.
C21_FirstLiveCandidate ==
    [][(pc = "backends" /\ hist'.candidates # <<>>) =>
        LET cands == hist'.candidates
            checked == hist'.checked
            Live(k) == /\ cands[k] \notin ACCESSED_URLS
                       /\ cands[k] \in DOMAIN checked
                       /\ checked[cands[k]]
            Passed(k) == \/ cands[k] \in ACCESSED_URLS
                         \/ cands[k] \in DOMAIN checked /\ ~checked[cands[k]]
        IN  /\ product_url' # NoUrl =>
                   \E k \in DOMAIN cands :
                       /\ cands[k] = product_url'
                       /\ Live(k)
                       /\ \A j \in 1..(k - 1) : Passed(j)
            /\ product_url' = NoUrl => \A k \in DOMAIN cands : Passed(k)
            /\ \A u \in Range(cands) \cap ACCESSED_URLS :
                   /\ u \notin DOMAIN checked
                   /\ u \in hist'.sent => u \in hist.sent
                   /\ u \in hist'.resent => u \in hist.resent
            /\ DOMAIN checked \subseteq ACCESSED_URLS'
      ]_vars

\* A search returned two candidates; the first was in ACCESSED_URLS and was
\* skipped, the second was checked and is the URL found.
C21_Witness ==
    /\ pc = "post"
    /\ Len(hist.candidates) = 2
    /\ hist.candidates[1] \in ACCESSED_URLS
    /\ hist.candidates[1] \notin DOMAIN hist.checked
    /\ product_url = hist.candidates[2]
    /\ hist.checked = DictSet(EmptyDict, product_url, TRUE)

\* C22: when a backend answered an EAN search and every candidate was in
\* ACCESSED_URLS or failed its existence check, or there was no candidate, no
\* URL is found and, unless every backend is blocked, main adds the product to
\* not_found_products; every candidate that failed its check is in
\* ACCESSED_URLS.
C22_DeadCandidatesGiveNotFound ==
    [][(/\ pc = "post"
        /\ cur[2] = "ean"
        /\ hist.answered
        /\ \A c \in Range(hist.candidates) :
               c \notin DOMAIN hist.checked \/ ~hist.checked[c]
        /\ ~AllBlocked(search_blocked))
       => /\ product_url = NoUrl
          /\ cur[1] \in not_found_products'
          /\ {c \in DOMAIN hist.checked : ~hist.checked[c]} \subseteq ACCESSED_URLS
      ]_vars

\* An EAN was added to not_found_products after a search with two candidates,
\* one skipped as accessed and one that failed its existence check.
C22_Witness ==
    /\ pc = "loop"
    /\ cur[2] = "ean"
    /\ cur[1] \in not_found_products
    /\ Len(hist.candidates) = 2
    /\ \E c \in Range(hist.candidates) : c \notin DOMAIN hist.checked
    /\ \E c \in DOMAIN hist.checked : ~hist.checked[c]
    /\ product_url = NoUrl

\* C23: a product is added to not_found_products only after a resolve that
\* sent a query for it (a search of a backend, or the direct search) which
\* was answered without an error: not after a resolve that was skipped
\* because its search URL was in ACCESSED_URLS, and not after a timeout or
\* another error of the query.
C23_NotFoundOnlyAfterAnsweredQuery ==
    [][(pc = "post" /\ pc' = "loop" /\ not_found_products' # not_found_products)
       => hist.completed]_vars

\* C24: the resolve of a model number sends at most one request, to the
\* search URL of the model number, and none when that URL is in
\* ACCESSED_URLS; the URL is in ACCESSED_URLS afterwards, also when the
\* request failed; search_blocked and BACKEND_FAILURES are left as they were.
C24_ModelResolveFrame ==
    [][(pc = "loop" /\ pc' = "post" /\ cur'[2] = "model") =>
        LET search_url == Url(TRUE, TRUE, <<"search", cur'[1]>>, FALSE)
        IN  /\ search_url \in ACCESSED_URLS =>
                   /\ hist'.sent = hist.sent
                   /\ hist'.resent = hist.resent
                   /\ ACCESSED_URLS' = ACCESSED_URLS
            /\ hist'.sent \subseteq hist.sent \cup {search_url}
            /\ hist'.resent \subseteq hist.resent \cup ({search_url} \cap hist.sent)
            /\ search_url \in ACCESSED_URLS'
            /\ search_blocked' = search_blocked
            /\ BACKEND_FAILURES' = BACKEND_FAILURES
      ]_vars

\* The first row is a model number, the request of its search failed, and
\* the search URL is in ACCESSED_URLS.
C24_Witness ==
    /\ pc = "post"
    /\ i = 1
    /\ cur[2] = "model"
    /\ ~hist.answered
    /\ product_url = NoUrl
    /\ hist.sent = {Url(TRUE, TRUE, <<"search", cur[1]>>, FALSE)}
    /\ hist.sent \subseteq ACCESSED_URLS

\* C25: is_valid_product_url returns True exactly for the URLs that hold
\* 'argos.co.uk', match a product path (/product/<id>, with or without a
\* slug before the id) and hold none of the excluded segments; a URL with
\* an excluded segment is rejected even when it holds /product/<id>.
C25_ExcludedSegmentsRejected ==
    hist.validated.url # NoUrl =>
        (hist.validated.valid <=>
            /\ hist.validated.url.argos
            /\ \/ MatchesProductId(hist.validated.url)
               \/ MatchesSlugProductId(hist.validated.url)
            /\ ~ContainsExcluded(hist.validated.url))

\* A URL of the site with a product path: /product/<id>, with or without a
\* slug before the id.
ProductPage(url) ==
    /\ url.argos
    /\ \E k \in 1..Len(url.segs) :
           /\ url.segs[k] = "product"
           /\ \/ k + 1 <= Len(url.segs) /\ url.segs[k + 1] \in DigitSegs
              \/ /\ k + 2 <= Len(url.segs)
                 /\ url.segs[k + 1] \in SlugSegs
                 /\ url.segs[k + 2] \in DigitSegs

\* C26: every URL that find_product_url_enhanced returns, for an EAN or for
\* a model number, is a valid product URL; and when the direct search ends at
\* a valid product URL, that URL is returned whatever the page holds.
C26_ResolvedUrlIsProductUrl ==
    pc = "post" =>
        /\ product_url # NoUrl => ProductPage(product_url)
        /\ (/\ cur[2] = "model"
            /\ hist.direct.kind = "ok"
            /\ ProductPage(hist.direct.final_url))
           => product_url = hist.direct.final_url

\* The direct search was redirected to a product page whose links lead to
\* another product: the URL of the redirect is returned.
C26_Witness ==
    /\ pc = "post"
    /\ cur[2] = "model"
    /\ hist.direct.final_url = P2
    /\ hist.direct.links = <<P1>>
    /\ product_url = P2

\* Every backend whose flag is set in sb has a block time in sb.
BlockTimesRecorded(sb) ==
    \A b \in DOMAIN sb.blocked : sb.blocked[b] => b \in DOMAIN sb.last_block_time

\* C27: a backend whose blocked flag is set has a recorded block time, in
\* memory and in the blocked-status file a later run loads; and when
\* block_cooldown has passed since that time, also while no run was going on,
\* the next resolve of an EAN unblocks the backend and counts it as available.
C27_BlockedBackendHasBlockTime ==
    [][/\ BlockTimesRecorded(search_blocked')
       /\ disk'["blocked_status_file"].state = "ok" =>
              BlockTimesRecorded(disk'["blocked_status_file"].data)
       /\ (pc = "loop" /\ pc' \in {"backends", "post"} /\ cur'[2] = "ean") =>
              \A b \in search_backends :
                  (/\ search_blocked.blocked[b]
                   /\ b \in DOMAIN search_blocked.last_block_time
                   /\ now' - search_blocked.last_block_time[b] >= block_cooldown)
                  => /\ b \in available_backends'
                     /\ ~search_blocked'.blocked[b]
      ]_vars

\* In the second run the resolve of an EAN has unblocked a backend that the
\* loaded file held as blocked and whose cooldown ended between the runs.
C27_Witness ==
    /\ runs = 2
    /\ pc = "backends"
    /\ disk["blocked_status_file"].state = "ok"
    /\ \E b \in available_backends :
           /\ disk["blocked_status_file"].data.blocked[b]
           /\ ~search_blocked.blocked[b]
           /\ b \in DOMAIN search_blocked.last_block_time
           /\ now - search_blocked.last_block_time[b] >= block_cooldown

\* C28: a call of adaptive_delay for a channel sleeps a time that is positive
\* and at most the delay computed (base plus jitter); the time since the last
\* request of the channel is taken off exactly when it is smaller than that
\* delay; the time after the sleep is recorded as the last request time of
\* the channel, so that it lies at least the computed delay after the one
\* recorded before; the last request time of every other channel is left
\* as it was.
C28_AdaptiveDelaySleep ==
    [][(hist'.delay # hist.delay \/ now' # now) =>
        LET c == hist'.delay.channel
            computed == hist'.delay.computed
            known == c \in DOMAIN LAST_REQUEST_TIME
        IN  /\ now' - now = hist'.delay.slept
            /\ now' - now > 0
            /\ now' - now <= computed
            /\ now' - now =
                   IF known /\ now - LAST_REQUEST_TIME[c] < computed
                   THEN computed - (now - LAST_REQUEST_TIME[c])
                   ELSE computed
            /\ c \in DOMAIN LAST_REQUEST_TIME'
            /\ LAST_REQUEST_TIME'[c] = now'
            /\ known => LAST_REQUEST_TIME'[c] - LAST_REQUEST_TIME[c] >= computed
            /\ DOMAIN LAST_REQUEST_TIME' = DOMAIN LAST_REQUEST_TIME \cup {c}
            /\ \A other \in DOMAIN LAST_REQUEST_TIME \ {c} :
                   LAST_REQUEST_TIME'[other] = LAST_REQUEST_TIME[other]
      ]_vars

\* adaptive_delay has slept less than the computed delay for a channel
\* whose last request lay less than that delay back; another channel has an
\* earlier last request time.
C28_Witness ==
    /\ hist.delay.slept > 0
    /\ hist.delay.slept < hist.delay.computed
    /\ LAST_REQUEST_TIME[hist.delay.channel] = now
    /\ \E other \in DOMAIN LAST_REQUEST_TIME :
           /\ other # hist.delay.channel
           /\ LAST_REQUEST_TIME[other] < now

\* C29: after a search of a backend that found a product URL, the failure
\* count of that backend is 0 (or it has none), the counts of the other
\* backends are as before, and no blocked flag and no block time has changed.
C29_SuccessResetsFailureCount ==
    [][(pc = "backends" /\ product_url' # NoUrl) =>
        \A c \in search_backends :
            (c \in DOMAIN LAST_REQUEST_TIME' /\ LAST_REQUEST_TIME'[c] = now')
            => /\ DictGet(BACKEND_FAILURES', c, 0) = 0
               /\ \A b \in search_backends \ {c} :
                      DictGet(BACKEND_FAILURES', b, -1) = DictGet(BACKEND_FAILURES, b, -1)
               /\ search_blocked' = search_blocked
      ]_vars

\* A backend that hit a rate limit earlier in the run, and was unblocked when
\* its cooldown had passed, has found a product URL: its count is 0 again.
C29_Witness ==
    /\ pc = "post"
    /\ product_url # NoUrl
    /\ \E c \in DOMAIN BACKEND_FAILURES :
           /\ c \in DOMAIN LAST_REQUEST_TIME
           /\ LAST_REQUEST_TIME[c] = now
           /\ BACKEND_FAILURES[c] = 0
           /\ c \in DOMAIN search_blocked.last_block_time
           /\ ~search_blocked.blocked[c]

\* C30: a run that has entered the loop comes to its end after the final
\* save, whether the loop is left at the end of the list or by the break
\* made when every backend is blocked; every turn of the loop takes the next
\* entry of the list, and no more turns are made than the list has entries.
C30_RunEndsWithFinalSave ==
    /\ (pc = "loop") ~> (pc = "done" /\ hist.final_saved)
    /\ [][/\ (pc = "loop" /\ pc' \in {"backends", "post"}) =>
                 (i' = i + 1 /\ i' <= StopRows)
          /\ pc # "loop" => i' = i \/ pc' = "done"
          /\ pc' = "done" => (pc \in {"start", "final"})
         ]_vars

\* The loop was left by the break, with rows of the list unprocessed, and
\* the run has ended after its final save.
C30_Witness ==
    /\ pc = "done"
    /\ hist.final_saved
    /\ hist.unprocessed # {}
    /\ AllBlocked(hist.saved.sb)
====
